---- MODULE Spec2Model ----
(***************************************************************************)
(* CodeCrawl (src/index.js): a recursive directory walk that classifies    *)
(* the lines of every eligible source file and sums the per-file metrics   *)
(* bottom-up, driven by a command-line front end that walks up to three    *)
(* roots one after the other.                                              *)
(*                                                                         *)
(* Strings are sequences of one-character strings, so that trim,           *)
(* startsWith, endsWith, includes, split, join, extname and basename are   *)
(* computed character by character as the JavaScript library computes      *)
(* them.                                                                   *)
(***************************************************************************)
EXTENDS Integers, Sequences, FiniteSets, TLC

VARIABLES
    fs,          \* the directory tree: node id -> [parent, name, kind, target]
    options,     \* program.opts(): [root, src, all, dir]
    pc,          \* position of the top-level async driver
    stack,       \* the active processDirectory calls, innermost last
    returned,    \* the aggregate the last finished top-level walk returned
    printed,     \* console output: the tables printed so far, in order
    walked,      \* history: the roots processDirectory was called on, and how each ended
    listed,      \* history: the directories readdirSync listed in the current walk
    counted,     \* history: the files getFileMetrics measured in the current walk
    content,     \* the text of the file getFileMetrics is applied to
    fileMetrics  \* what getFileMetrics returned for content

vars == <<fs, options, pc, stack, returned, printed, walked, listed, counted, content, fileMetrics>>

----------------------------------------------------------------------------
(* Bounds of the model. *)

\* Number of directory entries below the tool's root directory.
MaxEntries == 2
\* Longest file content drawn for getFileMetrics.
MaxContentLen == 4

----------------------------------------------------------------------------
(* String primitives of the JavaScript runtime. *)

SetMin(S) == CHOOSE x \in S : \A y \in S : x <= y
SetMax(S) == CHOOSE x \in S : \A y \in S : x >= y

\* Characters String.prototype.trim strips (those the model's alphabet has).
WhiteSpace == {" ", "\t", "\r", "\n"}

trim(s) ==
    LET keep == {i \in 1..Len(s) : s[i] \notin WhiteSpace}
    IN  IF keep = {} THEN <<>> ELSE SubSeq(s, SetMin(keep), SetMax(keep))

startsWith(s, p) == Len(s) >= Len(p) /\ SubSeq(s, 1, Len(p)) = p

endsWith(s, p) == Len(s) >= Len(p) /\ SubSeq(s, Len(s) - Len(p) + 1, Len(s)) = p

includes(s, p) ==
    \E i \in 1..(Len(s) - Len(p) + 1) : SubSeq(s, i, i + Len(p) - 1) = p

\* content.split(sep) for a one-character separator: never empty, and a
\* text ending in the separator yields a final empty piece.
RECURSIVE split(_, _)
split(s, sep) ==
    LET at == {i \in 1..Len(s) : s[i] = sep}
    IN  IF at = {} THEN <<s>>
        ELSE LET k == SetMin(at)
             IN  <<SubSeq(s, 1, k - 1)>> \o split(SubSeq(s, k + 1, Len(s)), sep)

\* pieces.join(sep)
RECURSIVE join(_, _)
join(pieces, sep) ==
    IF pieces = <<>> THEN <<>>
    ELSE IF Len(pieces) = 1 THEN pieces[1]
    ELSE pieces[1] \o <<sep>> \o join(Tail(pieces), sep)

----------------------------------------------------------------------------
(* FileClassifier: getFileMetrics. *)

SLASHES == <<"/", "/">>
BLOCK_OPEN == <<"/", "*">>
BLOCK_CLOSE == <<"*", "/">>

\* Line 27: the filter behind `lines` and `characters`.
IsNonCommentNonEmpty(line) ==
    LET trimmedLine == trim(line)
    IN  /\ trimmedLine # <<>>
        /\ ~startsWith(trimmedLine, SLASHES)
        /\ ~startsWith(trimmedLine, BLOCK_OPEN)
        /\ ~endsWith(trimmedLine, BLOCK_CLOSE)

\* IsCommentLine looking for a marker anywhere in the line.
IsCommentLineAnywhere(line) ==
    LET trimmedLine == trim(line)
    IN  \/ includes(trimmedLine, SLASHES)
        \/ includes(trimmedLine, BLOCK_OPEN)
        \/ includes(trimmedLine, BLOCK_CLOSE)

\* Line 31: the filter behind `commentLines`.
IsCommentLine(line) ==
    LET trimmedLine == trim(line)
    IN  \/ startsWith(trimmedLine, SLASHES)
        \/ startsWith(trimmedLine, BLOCK_OPEN)
        \/ endsWith(trimmedLine, BLOCK_CLOSE)

\* Line 33: the filter behind `blankLines`.
IsBlankLine(line) == trim(line) = <<>>

\* IsCodeAndCommentLine leaving out the lines that start or end with a marker.
IsCodeAndCommentLineCodeOnly(line) ==
    LET trimmedLine == trim(line)
    IN  /\ IsNonCommentNonEmpty(line)
        /\ \/ includes(trimmedLine, SLASHES)
           \/ includes(trimmedLine, BLOCK_OPEN)
           \/ includes(trimmedLine, BLOCK_CLOSE)

\* Line 36: the filter behind `codeAndCommentLines`.
IsCodeAndCommentLine(line) ==
    LET trimmedLine == trim(line)
    IN  /\ trimmedLine # <<>>
        /\ \/ includes(trimmedLine, SLASHES)
           \/ includes(trimmedLine, BLOCK_OPEN)
           \/ includes(trimmedLine, BLOCK_CLOSE)

getFileMetrics(text) ==
    LET lines == split(text, "\n")
        nonCommentNonEmptyLines == SelectSeq(lines, IsNonCommentNonEmpty)
        commentLines == SelectSeq(lines, IsCommentLine)
        blankLines == SelectSeq(lines, IsBlankLine)
        codeAndCommentLines == SelectSeq(lines, IsCodeAndCommentLine)
        characters == Len(join(nonCommentNonEmptyLines, "\n"))
    IN  [lines |-> Len(nonCommentNonEmptyLines),
         characters |-> characters,
         commentLines |-> Len(commentLines),
         blankLines |-> Len(blankLines),
         codeAndCommentLines |-> Len(codeAndCommentLines),
         totalLines |-> Len(lines)]

----------------------------------------------------------------------------
(* FileClassifier: isValidFile. *)

NODE_MODULES == <<"n", "o", "d", "e", "_", "m", "o", "d", "u", "l", "e", "s">>
DIST == <<"d", "i", "s", "t">>
TESTS == <<"t", "e", "s", "t", "s">>
defaultIgnoreDirs == {NODE_MODULES, DIST, TESTS}
prismaSchema == <<"s", "c", "h", "e", "m", "a", ".", "p", "r", "i", "s", "m", "a">>
DOT_JS == <<".", "j", "s">>
DOT_TS == <<".", "t", "s">>

\* path.basename: what follows the last separator.
basename(p) ==
    LET seps == {i \in 1..Len(p) : p[i] = "/"}
    IN  IF seps = {} THEN p ELSE SubSeq(p, SetMax(seps) + 1, Len(p))

\* path.extname: from the last dot of the base name, unless the base name has
\* no dot, starts with its only dot, or is "..".
extname(p) ==
    LET b == basename(p)
        dots == {i \in 1..Len(b) : b[i] = "."}
    IN  IF dots = {} \/ SetMax(dots) = 1 \/ b = <<".", ".">> THEN <<>>
        ELSE SubSeq(b, SetMax(dots), Len(b))

\* isValidFile matching the ignored names against whole path segments.
isValidFileBySegment(filePath) ==
    LET ext == extname(filePath)
        baseName == basename(filePath)
        segments == split(filePath, "/")
    IN  /\ (ext = DOT_JS \/ ext = DOT_TS \/ baseName = prismaSchema)
        /\ ~(\E dir \in defaultIgnoreDirs : \E k \in DOMAIN segments : segments[k] = dir)

isValidFile(filePath) ==
    LET ext == extname(filePath)
        baseName == basename(filePath)
    IN  /\ (ext = DOT_JS \/ ext = DOT_TS \/ baseName = prismaSchema)
        /\ ~(\E dir \in defaultIgnoreDirs : includes(filePath, dir))

\* path.join(dir, file) for a directory path without a trailing separator and
\* an entry name.
pathJoin(dir, file) == dir \o <<"/">> \o file

----------------------------------------------------------------------------
(* The file system the walk reads. *)

SRC == <<"s", "r", "c">>
XNODE_MODULESY == <<"x">> \o NODE_MODULES \o <<"y">>
A_JS == <<"a", ".", "j", "s">>
XTESTS_TS == <<"x">> \o TESTS \o DOT_TS
B_MD == <<"b", ".", "m", "d">>
LN_JS == <<"l", "n", ".", "j", "s">>

\* Entry names, in the order that makes a tree's numbering canonical.
NamePool == <<SRC, DIST, XNODE_MODULESY, A_JS, XTESTS_TS, prismaSchema, DOT_JS, B_MD, LN_JS>>
DirNames == {SRC, DIST, XNODE_MODULESY}
FileNames == {A_JS, XTESTS_TS, prismaSchema, DOT_JS, B_MD}
LinkNames == {SRC, LN_JS}
NameRank(nm) == CHOOSE i \in 1..Len(NamePool) : NamePool[i] = nm

\* __dirname of the tool, already resolved: node 0 of the tree.
rootDir == <<"/", "r">>
srcDir == pathJoin(rootDir, SRC)

Entries == 1..MaxEntries
NoEnt == -1

NodesAt(i) ==
    [parent : 0..(i - 1), name : DirNames, kind : {"dir"}, target : {NoEnt}]
    \cup [parent : 0..(i - 1), name : FileNames, kind : {"file"}, target : {NoEnt}]
    \cup [parent : 0..(i - 1), name : LinkNames, kind : {"link"},
          target : 0..MaxEntries \ {i}]

\* Entry i may follow the entries of t: its parent is a directory, and the
\* numbering stays breadth-first with siblings sorted by name (so names are
\* unique within a directory).
FitsAfter(t, nd) ==
    /\ nd.parent # 0 => t[nd.parent].kind = "dir"
    /\ t # <<>> =>
          LET last == t[Len(t)]
          IN  \/ last.parent < nd.parent
              \/ /\ last.parent = nd.parent
                 /\ NameRank(last.name) < NameRank(nd.name)

RECURSIVE TreesOf(_)
TreesOf(k) ==
    IF k = 0 THEN {<<>>}
    ELSE {Append(t, nd) : <<t, nd>> \in
             {tn \in TreesOf(k - 1) \X NodesAt(k) : FitsAfter(tn[1], tn[2])}}

\* A symbolic link points to a directory or a file, never to a link.
Trees ==
    {t \in TreesOf(MaxEntries) :
        \A i \in Entries :
            (t[i].kind = "link" /\ t[i].target # 0) => t[t[i].target].kind # "link"}

RECURSIVE PathIn(_, _)
PathIn(t, n) == IF n = 0 THEN rootDir ELSE pathJoin(PathIn(t, t[n].parent), t[n].name)

IsDirNode(n) == n = 0 \/ (n \in Entries /\ fs[n].kind = "dir")

\* A symbolic link resolved to what it points to.
Follow(n) == IF n \in Entries /\ fs[n].kind = "link" THEN fs[n].target ELSE n

ChildrenOf(d) == {i \in Entries : fs[i].parent = d}

\* Path resolution below node n: every component but the last one is followed
\* through symbolic links; NoEnt when a component is missing or not a directory.
RECURSIVE Descend(_, _)
Descend(n, segs) ==
    IF segs = <<>> THEN n
    ELSE LET d == Follow(n)
             c == {i \in ChildrenOf(d) : fs[i].name = segs[1]}
         IN  IF ~IsDirNode(d) \/ c = {} THEN NoEnt
             ELSE Descend(CHOOSE i \in c : TRUE, Tail(segs))

NodeAt(p) ==
    LET segs == split(p, "/")
    IN  IF Len(segs) < 2 \/ SubSeq(segs, 1, 2) # split(rootDir, "/") THEN NoEnt
        ELSE Descend(0, SubSeq(segs, 3, Len(segs)))

\* fs.statSync(p): the entry with a final symbolic link followed.
statSync(p) ==
    LET n == Follow(NodeAt(p))
    IN  [exists |-> n # NoEnt,
         isSymbolicLink |-> FALSE,
         isDirectory |-> IsDirNode(n),
         ino |-> n]

\* fs.lstatSync(p): the entry itself, a link not followed.
lstatSync(p) ==
    LET n == NodeAt(p)
    IN  [exists |-> n # NoEnt,
         isSymbolicLink |-> n \in Entries /\ fs[n].kind = "link",
         isDirectory |-> IsDirNode(n),
         ino |-> n]

\* fs.readdirSync(p): the names in the directory p resolves to (links
\* followed); the order is the caller's to draw.
readdirSync(p) ==
    LET d == Follow(NodeAt(p))
    IN  [ok |-> IsDirNode(d),
         ino |-> d,
         names |-> IF IsDirNode(d) THEN {fs[i].name : i \in ChildrenOf(d)} ELSE {}]

RECURSIVE Rep(_, _)
Rep(s, k) == IF k = 0 THEN <<>> ELSE s \o Rep(s, k - 1)

\* The text of file n: 2^(n-1) code lines, n comment lines, one code line
\* carrying a block-comment opener, one empty line, and a final newline.
ContentOf(n) ==
    Rep(<<"a", "\n">>, 2 ^ (n - 1)) \o Rep(<<"/", "/", "\n">>, n)
        \o <<"a", "/", "*", "\n", "\n">>

\* fs.readFileSync(p, 'utf-8'): links followed.
readFileSync(p) ==
    LET n == Follow(NodeAt(p))
    IN  [ok |-> n \in Entries /\ fs[n].kind = "file",
         ino |-> n,
         text |-> IF n \in Entries /\ fs[n].kind = "file" THEN ContentOf(n) ELSE <<>>]

----------------------------------------------------------------------------
(* TreeAggregator: processDirectory, one frame per active call. *)

\* Lines 50-58: the accumulators of a call and the listing it iterates.
NewFrame(dir, files) ==
    [dir |-> dir, files |-> files,
     totalLines |-> 0, totalCharacters |-> 0, totalCommentLines |-> 0,
     totalBlankLines |-> 0, totalCodeAndCommentLines |-> 0,
     fileCount |-> 0, directoryCount |-> 0]

\* Lines 96-104: the object a call returns.
Aggregate(f) ==
    [totalLines |-> f.totalLines,
     totalCharacters |-> f.totalCharacters,
     commentLines |-> f.totalCommentLines,
     blankLines |-> f.totalBlankLines,
     codeAndCommentLines |-> f.totalCodeAndCommentLines,
     fileCount |-> f.fileCount,
     directoryCount |-> f.directoryCount]

ZeroAggregate == Aggregate(NewFrame(<<>>, <<>>))

\* CountDirectory without the increment.
CountDirectoryNot(f) == f

\* Line 68: the directory is counted before it is entered.
CountDirectory(f) == [f EXCEPT !.directoryCount = @ + 1]

\* FoldDirectory leaving the file count of the recursive call out.
FoldDirectoryMetricsOnly(f, r) ==
    [f EXCEPT !.totalLines = @ + r.totalLines,
              !.totalCharacters = @ + r.totalCharacters,
              !.totalCommentLines = @ + r.commentLines,
              !.totalBlankLines = @ + r.blankLines,
              !.totalCodeAndCommentLines = @ + r.codeAndCommentLines,
              !.directoryCount = @ + r.directoryCount]

\* Lines 69-84: the result of the recursive call folded into the caller.
FoldDirectory(f, r) ==
    [f EXCEPT !.totalLines = @ + r.totalLines,
              !.totalCharacters = @ + r.totalCharacters,
              !.totalCommentLines = @ + r.commentLines,
              !.totalBlankLines = @ + r.blankLines,
              !.totalCodeAndCommentLines = @ + r.codeAndCommentLines,
              !.fileCount = @ + r.fileCount,
              !.directoryCount = @ + r.directoryCount]

\* FoldFile assigning the line count instead of adding it.
FoldFileOverwrite(f, m) ==
    [f EXCEPT !.totalLines = m.lines,
              !.totalCharacters = @ + m.characters,
              !.totalCommentLines = @ + m.commentLines,
              !.totalBlankLines = @ + m.blankLines,
              !.totalCodeAndCommentLines = @ + m.codeAndCommentLines,
              !.fileCount = @ + 1]

\* FoldFile adding the count of all lines of the file to totalLines.
FoldFileAllLines(f, m) ==
    [f EXCEPT !.totalLines = @ + m.totalLines,
              !.totalCharacters = @ + m.characters,
              !.totalCommentLines = @ + m.commentLines,
              !.totalBlankLines = @ + m.blankLines,
              !.totalCodeAndCommentLines = @ + m.codeAndCommentLines,
              !.fileCount = @ + 1]

\* Lines 86-92: the metrics of one eligible file folded into the call.
FoldFile(f, m) ==
    [f EXCEPT !.totalLines = @ + m.lines,
              !.totalCharacters = @ + m.characters,
              !.totalCommentLines = @ + m.commentLines,
              !.totalBlankLines = @ + m.blankLines,
              !.totalCodeAndCommentLines = @ + m.codeAndCommentLines,
              !.fileCount = @ + 1]

\* forEach moves to the next entry.
NextEntry(f) == [f EXCEPT !.files = Tail(@)]

\* The orders readdirSync may list a set of names in.
Listings(S) ==
    {q \in [1..Cardinality(S) -> S] : \A i, j \in 1..Cardinality(S) : q[i] = q[j] => i = j}

----------------------------------------------------------------------------
(* The top-level driver (lines 159-182). *)

NoDir == <<>>

\* Requested with --all forgotten for the src folder.
RequestedWithoutAll(ph) ==
    CASE ph = 1 -> options.root \/ options.all
      [] ph = 2 -> options.src
      [] ph = 3 -> options.dir # NoDir

\* Lines 163, 168, 173: is the root of phase ph requested?
Requested(ph) ==
    CASE ph = 1 -> options.root \/ options.all
      [] ph = 2 -> options.src \/ options.all
      [] ph = 3 -> options.dir # NoDir

\* Lines 160-161, 174: the directory phase ph walks.
Target(ph) ==
    CASE ph = 1 -> rootDir
      [] ph = 2 -> srcDir
      [] ph = 3 -> options.dir

\* Lines 165, 170, 176: the folder name printMetrics is given.
Label(ph) ==
    CASE ph = 1 -> <<"R", "o", "o", "t">>
      [] ph = 2 -> SRC
      [] ph = 3 -> options.dir

\* An exception caught per root, the driver going on with the next root.
CaughtPerRoot(ph) == [at |-> "check", ph |-> ph + 1]

\* Where an exception thrown in a walk leaves the driver: nothing catches it,
\* the async function's promise is rejected and no later statement runs.
Uncaught(ph) == [at |-> "rejected", ph |-> ph]

Top == stack[Len(stack)]
Walking == pc.at = "walk" /\ stack # <<>>
HasEntry == Walking /\ Top.files # <<>>
filePath == pathJoin(Top.dir, Head(Top.files))
stat == lstatSync(filePath)
ReplaceTop(f) == [stack EXCEPT ![Len(stack)] = f]

SetLast(w, st, m, depth) ==
    [w EXCEPT ![Len(w)] = [@ EXCEPT !.status = st, !.metrics = m, !.depth = depth]]

\* Lines 164, 169, 175: processDirectory is called on the root of the phase and
\* its readdirSync succeeds.
Begin(ph) ==
    /\ pc = [at |-> "check", ph |-> ph]
    /\ ph <= 3 /\ Requested(ph)
    /\ LET r == readdirSync(Target(ph))
       IN  /\ r.ok
           /\ \E files \in Listings(r.names) :
                 stack' = <<NewFrame(Target(ph), files)>>
           /\ listed' = <<r.ino>>
    /\ counted' = <<>>
    /\ pc' = [at |-> "walk", ph |-> ph]
    /\ walked' = Append(walked, [phase |-> ph, dir |-> Target(ph), status |-> "running",
                                 metrics |-> ZeroAggregate, depth |-> 0])
    /\ UNCHANGED <<fs, options, returned, printed, content, fileMetrics>>

\* The same call when readdirSync throws: the directory is missing, is not a
\* directory, or cannot be read.
BeginThrows(ph) ==
    /\ pc = [at |-> "check", ph |-> ph]
    /\ ph <= 3 /\ Requested(ph)
    /\ \E fault \in BOOLEAN : fault \/ ~readdirSync(Target(ph)).ok
    /\ pc' = Uncaught(ph)
    /\ walked' = Append(walked, [phase |-> ph, dir |-> Target(ph), status |-> "threw",
                                 metrics |-> ZeroAggregate, depth |-> 0])
    /\ UNCHANGED <<fs, options, stack, returned, printed, listed, counted, content, fileMetrics>>

\* The if of a phase whose root is not requested.
Skip(ph) ==
    /\ pc = [at |-> "check", ph |-> ph]
    /\ ph <= 3 /\ ~Requested(ph)
    /\ pc' = [at |-> "check", ph |-> ph + 1]
    /\ UNCHANGED <<fs, options, stack, returned, printed, walked, listed, counted, content, fileMetrics>>

\* Lines 63-65: a symbolic link is skipped.
SkipSymlink ==
    /\ HasEntry
    /\ stat.exists /\ stat.isSymbolicLink
    /\ stack' = ReplaceTop(NextEntry(Top))
    /\ UNCHANGED <<fs, options, pc, returned, printed, walked, listed, counted, content, fileMetrics>>

\* Lines 67-77: a directory is counted and processDirectory is called on it.
EnterDirectory ==
    /\ HasEntry
    /\ stat.exists /\ ~stat.isSymbolicLink /\ stat.isDirectory
    /\ LET r == readdirSync(filePath)
       IN  /\ r.ok
           /\ \E files \in Listings(r.names) :
                 stack' = Append(ReplaceTop(CountDirectory(Top)), NewFrame(filePath, files))
           /\ listed' = Append(listed, r.ino)
    /\ UNCHANGED <<fs, options, pc, returned, printed, walked, counted, content, fileMetrics>>

\* Lines 77-84: a recursive call returns and its caller folds the result in.
ReturnToCaller ==
    /\ Walking /\ Top.files = <<>> /\ Len(stack) > 1
    /\ LET caller == stack[Len(stack) - 1]
       IN  stack' = [SubSeq(stack, 1, Len(stack) - 1) EXCEPT ![Len(stack) - 1] =
                        NextEntry(FoldDirectory(caller, Aggregate(Top)))]
    /\ UNCHANGED <<fs, options, pc, returned, printed, walked, listed, counted, content, fileMetrics>>

\* Lines 85-93: an eligible regular file is read and measured.
AddFile ==
    /\ HasEntry
    /\ stat.exists /\ ~stat.isSymbolicLink /\ ~stat.isDirectory
    /\ isValidFile(filePath)
    /\ LET r == readFileSync(filePath)
       IN  /\ r.ok
           /\ stack' = ReplaceTop(NextEntry(FoldFile(Top, getFileMetrics(r.text))))
           /\ counted' = Append(counted, r.ino)
    /\ UNCHANGED <<fs, options, pc, returned, printed, walked, listed, content, fileMetrics>>

\* Line 85: a regular file that is not eligible is passed over.
SkipFile ==
    /\ HasEntry
    /\ stat.exists /\ ~stat.isSymbolicLink /\ ~stat.isDirectory
    /\ ~isValidFile(filePath)
    /\ stack' = ReplaceTop(NextEntry(Top))
    /\ UNCHANGED <<fs, options, pc, returned, printed, walked, listed, counted, content, fileMetrics>>

\* lstatSync (line 61), the readdirSync of a subdirectory (line 58) or
\* readFileSync (line 23) throws: every active call is unwound.
Throw ==
    /\ HasEntry
    /\ \/ \E fault \in BOOLEAN : fault \/ ~stat.exists
       \/ /\ stat.exists /\ ~stat.isSymbolicLink /\ stat.isDirectory
          /\ \E fault \in BOOLEAN : fault \/ ~readdirSync(filePath).ok
       \/ /\ stat.exists /\ ~stat.isSymbolicLink /\ ~stat.isDirectory
          /\ isValidFile(filePath)
          /\ \E fault \in BOOLEAN : fault \/ ~readFileSync(filePath).ok
    /\ stack' = <<>>
    /\ pc' = Uncaught(pc.ph)
    /\ walked' = SetLast(walked, "threw", ZeroAggregate, Len(stack))
    /\ UNCHANGED <<fs, options, returned, printed, listed, counted, content, fileMetrics>>

\* Lines 96-104 of the outermost call: the aggregate reaches the driver.
ReturnToDriver ==
    /\ Walking /\ Top.files = <<>> /\ Len(stack) = 1
    /\ returned' = Aggregate(Top)
    /\ stack' = <<>>
    /\ pc' = [at |-> "print", ph |-> pc.ph]
    /\ walked' = SetLast(walked, "returned", Aggregate(Top), 0)
    /\ UNCHANGED <<fs, options, printed, listed, counted, content, fileMetrics>>

\* Lines 107-145, awaited: the table of the walk just finished is printed.
printMetrics ==
    /\ pc.at = "print"
    /\ printed' = Append(printed, [phase |-> pc.ph, folder |-> Label(pc.ph), metrics |-> returned])
    /\ pc' = [at |-> "check", ph |-> pc.ph + 1]
    /\ UNCHANGED <<fs, options, stack, returned, walked, listed, counted, content, fileMetrics>>

\* Lines 179-181: with no flag at all the help is shown; then the driver ends.
Finish ==
    /\ pc = [at |-> "check", ph |-> 4]
    /\ pc' = [at |-> IF ~options.root /\ ~options.src /\ ~options.all /\ options.dir = NoDir
                     THEN "help" ELSE "exit",
              ph |-> 4]
    /\ UNCHANGED <<fs, options, stack, returned, printed, walked, listed, counted, content, fileMetrics>>

ZeroMetrics ==
    [lines |-> 0, characters |-> 0, commentLines |-> 0, blankLines |-> 0,
     codeAndCommentLines |-> 0, totalLines |-> 0]

\* Line 174: the user names a path of the tree, absolute already, so that
\* path.resolve returns it unchanged; NoDir when --dir is not given.
DirChoices(t) == {NoDir} \cup {PathIn(t, n) : n \in 0..MaxEntries}

Init ==
    /\ fs \in Trees
    /\ options \in [root : BOOLEAN, src : BOOLEAN, all : BOOLEAN, dir : DirChoices(fs)]
    /\ pc = [at |-> "check", ph |-> 1]
    /\ stack = <<>>
    /\ returned = ZeroAggregate
    /\ printed = <<>>
    /\ walked = <<>>
    /\ listed = <<>>
    /\ counted = <<>>
    /\ content = <<>>
    /\ fileMetrics = ZeroMetrics

Next ==
    \/ \E ph \in 1..3 : Begin(ph) \/ BeginThrows(ph) \/ Skip(ph)
    \/ SkipSymlink
    \/ EnterDirectory
    \/ ReturnToCaller
    \/ AddFile
    \/ SkipFile
    \/ Throw
    \/ ReturnToDriver
    \/ printMetrics
    \/ Finish

Spec == Init /\ [][Next]_vars

----------------------------------------------------------------------------
(* What a walk of a fixed tree should return, stated on the tree itself. *)

RECURSIVE SumOver(_, _)
SumOver(S, f) ==
    IF S = {} THEN 0
    ELSE LET x == CHOOSE y \in S : TRUE IN f[x] + SumOver(S \ {x}, f)

\* The entries below directory d that are reachable through directories that
\* are not symbolic links.
RECURSIVE Below(_)
Below(d) ==
    UNION {{c} \cup (IF fs[c].kind = "dir" THEN Below(c) ELSE {}) : c \in ChildrenOf(d)}

\* The directory a walk of path p starts in.
WalkRoot(p) == Follow(NodeAt(p))

\* The path the walk of p joins for entry n below its root.
RECURSIVE WalkPath(_, _)
WalkPath(n, p) ==
    IF n = WalkRoot(p) THEN p ELSE pathJoin(WalkPath(fs[n].parent, p), fs[n].name)

RegularFiles(p) == {n \in Below(WalkRoot(p)) : fs[n].kind = "file"}
SubDirectories(p) == {n \in Below(WalkRoot(p)) : fs[n].kind = "dir"}
SymbolicLinks(p) == {n \in Below(WalkRoot(p)) : fs[n].kind = "link"}
EligibleFiles(p) == {n \in RegularFiles(p) : isValidFile(WalkPath(n, p))}
MetricSum(S, field) == SumOver(S, [n \in S |-> getFileMetrics(ContentOf(n))[field]])

\* The directory of the walk in progress or just finished.
CurrentDir == walked[Len(walked)].dir
\* The outermost processDirectory call has just returned to the driver.
JustReturned == pc.at = "print"

Returned(i) == i \in DOMAIN walked /\ walked[i].status = "returned"
Threw(i) == i \in DOMAIN walked /\ walked[i].status = "threw"

NoDuplicates(q) == \A i, j \in DOMAIN q : q[i] = q[j] => i = j
Range(q) == {q[i] : i \in DOMAIN q}

----------------------------------------------------------------------------
(* Claims about the walk. *)

\* C1: a finished walk returns fileCount equal to the number of regular files
\* reachable through non-symlink directories for which isValidFile holds, and
\* each of the five summed metrics equals the sum of getFileMetrics over
\* exactly those files; other regular files add nothing.
C1_AggregateIsSumOverEligibleFiles ==
    JustReturned =>
        LET m == returned
            E == EligibleFiles(CurrentDir)
        IN  /\ m.fileCount = Cardinality(E)
            /\ m.totalLines = MetricSum(E, "lines")
            /\ m.totalCharacters = MetricSum(E, "characters")
            /\ m.commentLines = MetricSum(E, "commentLines")
            /\ m.blankLines = MetricSum(E, "blankLines")
            /\ m.codeAndCommentLines = MetricSum(E, "codeAndCommentLines")
            /\ (E = {} => \A f \in DOMAIN m \ {"directoryCount"} : m[f] = 0)

\* A finished walk that met an eligible file and a regular file that is not.
C1_Witness ==
    /\ JustReturned
    /\ returned.fileCount >= 1
    /\ RegularFiles(CurrentDir) \ EligibleFiles(CurrentDir) # {}

\* A finished walk of a directory with no entry that is a directory or an
\* eligible file, returning all zeros.
C1_WitnessAllZero ==
    /\ JustReturned
    /\ SubDirectories(CurrentDir) = {} /\ EligibleFiles(CurrentDir) = {}
    /\ returned = ZeroAggregate

\* C2: directoryCount of a finished walk is the number of non-symlink
\* directories anywhere below the root, the root not counted, directories
\* with an ignored name included.
C2_DirectoryCountIsSubtreeSize ==
    JustReturned => returned.directoryCount = Cardinality(SubDirectories(CurrentDir))

\* A finished walk that counted a directory nested in a directory called dist.
C2_Witness ==
    /\ JustReturned
    /\ returned.directoryCount = 2
    /\ \E a, b \in SubDirectories(CurrentDir) : fs[b].parent = a /\ fs[a].name = DIST

\* C3: a walk never lists a directory twice and never measures a file twice,
\* lists and measures only what lies below its root through directories that
\* are not symbolic links (so never more calls than the tree has directories),
\* and what it returns counts nothing else.
C3_SymlinksAddNothing ==
    (pc.at \in {"walk", "print"}) =>
        /\ NoDuplicates(listed) /\ NoDuplicates(counted)
        /\ \A k \in 2..Len(listed) : listed[k] \in SubDirectories(CurrentDir)
        /\ Range(counted) \subseteq RegularFiles(CurrentDir)
        /\ Len(stack) <= Len(listed)
        /\ JustReturned =>
              /\ returned.fileCount = Len(counted)
              /\ returned.directoryCount = Len(listed) - 1

\* A finished walk that passed a symbolic link pointing back to the tool's
\* root directory, an ancestor of everything.
C3_Witness ==
    /\ JustReturned
    /\ \E l \in SymbolicLinks(CurrentDir) : fs[l].target = 0

\* C4: a walk in which listing a directory, lstat-ing an entry or reading a
\* file fails returns nothing: every active call is gone, the driver is left
\* rejected, the aggregate variable still holds what the previous root
\* returned, no table is printed for that root, and no walk follows it.
C4_FailureReturnsNothing ==
    \A i \in DOMAIN walked :
        Threw(i) =>
            /\ i = Len(walked)
            /\ pc = [at |-> "rejected", ph |-> walked[i].phase]
            /\ stack = <<>>
            /\ returned = (IF i = 1 THEN ZeroAggregate ELSE walked[i - 1].metrics)
            /\ \A k \in DOMAIN printed : printed[k].phase # walked[i].phase
            /\ \A j \in DOMAIN walked : walked[j].phase = walked[i].phase => j = i

\* A failure inside a nested call, after an earlier root was walked and printed.
C4_Witness ==
    \E i \in DOMAIN walked : Threw(i) /\ walked[i].depth >= 2 /\ Len(printed) >= 1

\* The roots the flags ask for, stated on the flags.
Wanted(q) ==
    \/ q = 1 /\ (options.root \/ options.all)
    \/ q = 2 /\ (options.src \/ options.all)
    \/ q = 3 /\ options.dir # NoDir
WantedTest(k, q) == q < k /\ Wanted(q)
WantedBelow(k) ==
    LET Test(q) == WantedTest(k, q) IN SelectSeq(<<1, 2, 3>>, Test)
PhasesOf(w) == [k \in DOMAIN w |-> w[k].phase]
DirOfPhase(q) == IF q = 1 THEN rootDir ELSE IF q = 2 THEN srcDir ELSE options.dir

\* C5: the driver walks and prints the requested roots one at a time in the
\* order root, src, user directory: when it is at phase ph every requested
\* earlier root has been walked and printed, in order, the walk of ph has
\* begun only if the driver is in it, a walk is active only in the walk state,
\* a rejected driver has walked nothing after the failing root, and with no
\* flag nothing is walked.
C5_RootsOneAtATimeInOrder ==
    /\ PhasesOf(printed) = WantedBelow(pc.ph)
    /\ PhasesOf(walked) =
          WantedBelow(pc.ph) \o
              (IF pc.at \in {"walk", "print", "rejected"} THEN <<pc.ph>> ELSE <<>>)
    /\ \A k \in DOMAIN walked : walked[k].dir = DirOfPhase(walked[k].phase)
    /\ \A k \in DOMAIN printed : Returned(k) /\ printed[k].metrics = walked[k].metrics
    /\ stack # <<>> => pc.at = "walk"
    /\ pc.at = "walk" => walked[Len(walked)].status = "running"
    /\ pc.at = "print" => Returned(Len(walked))
    /\ pc.at = "rejected" => Threw(Len(walked))
    /\ pc.at \in {"help", "exit"} => pc.ph = 4
    /\ (~options.root /\ ~options.src /\ ~options.all /\ options.dir = NoDir) =>
          walked = <<>> /\ printed = <<>> /\ pc.at \in {"check", "help"}
    /\ pc.at = "help" => walked = <<>>

\* --all with a user directory and no src subdirectory: the Root table is
\* printed, the src walk fails, the user directory is never walked.
C5_Witness ==
    /\ options.all /\ options.dir # NoDir /\ NodeAt(srcDir) = NoEnt
    /\ pc = [at |-> "rejected", ph |-> 2]
    /\ PhasesOf(printed) = <<1>>
    /\ PhasesOf(walked) = <<1, 2>>

\* C6: two finished walks of the same directory of the unchanged tree return
\* the same aggregate, whatever order each listing came in.
C6_SameTreeSameAggregate ==
    \A i, j \in DOMAIN walked :
        (Returned(i) /\ Returned(j) /\ walked[i].dir = walked[j].dir) =>
            walked[i].metrics = walked[j].metrics

\* Two finished walks of one directory that holds two eligible files.
C6_Witness ==
    \E i, j \in DOMAIN walked :
        /\ i # j /\ Returned(i) /\ Returned(j) /\ walked[i].dir = walked[j].dir
        /\ walked[i].metrics.fileCount >= 2

AggregateFields ==
    {"totalLines", "totalCharacters", "commentLines", "blankLines",
     "codeAndCommentLines", "fileCount", "directoryCount"}

\* C7 (as amended): the aggregate carries five metric sums and two counts; its
\* totalLines is the sum of the per-file code-line counts, also across
\* recursive calls, and the per-file count of all lines is folded nowhere.
C7_FiveSumsFolded ==
    /\ \A k \in DOMAIN stack :
          DOMAIN stack[k] = {"dir", "files", "totalLines", "totalCharacters",
                             "totalCommentLines", "totalBlankLines",
                             "totalCodeAndCommentLines", "fileCount", "directoryCount"}
    /\ JustReturned =>
          LET m == returned
              E == EligibleFiles(CurrentDir)
          IN  /\ DOMAIN m = AggregateFields
              /\ m.totalLines = MetricSum(E, "lines")
              /\ m.totalCharacters = MetricSum(E, "characters")
              /\ m.commentLines = MetricSum(E, "commentLines")
              /\ m.blankLines = MetricSum(E, "blankLines")
              /\ m.codeAndCommentLines = MetricSum(E, "codeAndCommentLines")

\* A finished walk whose eligible file sits in a subdirectory and has lines
\* that are not code.
C7_Witness ==
    /\ JustReturned
    /\ \E n \in EligibleFiles(CurrentDir) : fs[n].parent # WalkRoot(CurrentDir)
    /\ returned.totalLines < MetricSum(EligibleFiles(CurrentDir), "totalLines")

\* C7 as stated: the aggregate also carries the sum of the per-file count of
\* all lines, in totalLines or in a field of its own.
C7_AllSixFieldsFolded ==
    JustReturned =>
        \E g \in {"totalLines"} \cup (DOMAIN returned \ AggregateFields) :
            returned[g] = MetricSum(EligibleFiles(CurrentDir), "totalLines")

\* s occurs in p, stated on positions.
OccursIn(s, p) ==
    \E i \in 0..(Len(p) - Len(s)) : \A k \in 1..Len(s) : p[i + k] = s[k]
\* The last path segment is a non-empty stem followed by the extension e.
HasExtension(p, e) ==
    /\ Len(p) > Len(e) + 1
    /\ \A k \in 1..Len(e) : p[Len(p) - Len(e) + k] = e[k]
    /\ p[Len(p) - Len(e)] # "/"
\* The last path segment is exactly nm.
IsNamed(p, nm) ==
    /\ Len(p) > Len(nm)
    /\ \A k \in 1..Len(nm) : p[Len(p) - Len(nm) + k] = nm[k]
    /\ p[Len(p) - Len(nm)] = "/"
EligibleByRule(p) ==
    /\ HasExtension(p, DOT_JS) \/ HasExtension(p, DOT_TS) \/ IsNamed(p, prismaSchema)
    /\ ~OccursIn(NODE_MODULES, p) /\ ~OccursIn(DIST, p) /\ ~OccursIn(TESTS, p)

\* C9: the files a finished walk measured are exactly the regular files
\* whose extension is .js or .ts or whose name is schema.prisma and whose full
\* joined path contains none of node_modules, dist, tests anywhere; the
\* directories on such paths are all listed and counted.
C9_SubstringExclusion ==
    JustReturned =>
        LET dir == CurrentDir
        IN  /\ Range(counted) = {n \in RegularFiles(dir) : EligibleByRule(WalkPath(n, dir))}
            /\ SubDirectories(dir) \subseteq Range(listed)
            /\ returned.directoryCount = Cardinality(SubDirectories(dir))
            /\ returned.fileCount = Cardinality(Range(counted))

\* A finished walk that found a.js inside xnode_modulesy: the directory is
\* counted, the file is not.
C9_Witness ==
    /\ JustReturned
    /\ returned.fileCount = 0 /\ returned.directoryCount = 1
    /\ \E n \in RegularFiles(CurrentDir) :
          /\ fs[n].name = A_JS
          /\ fs[n].parent # 0 /\ fs[fs[n].parent].name = XNODE_MODULESY

----------------------------------------------------------------------------
(* getFileMetrics applied to bounded file contents. *)

Alphabet == {"a", " ", "/", "*", "\n", "\r"}
Contents == UNION {[1..k -> Alphabet] : k \in 0..MaxContentLen}

Line1 == <<"/", "/", " ", "h", "e", "a", "d", "e", "r", " ", "c", "o", "m", "m", "e", "n", "t">>
Line2 == <<"c", "o", "n", "s", "t", " ", "x", " ", "=", " ", "1", ";", " ", "/", "/", " ", "t", "r", "a", "i", "l", "i", "n", "g">>
Line4 == <<"f", "u", "n", "c", "t", "i", "o", "n", " ", "f", "(", ")", " ", "{", "}">>
\* The four lines of the documented example, each ended by a newline.
ExampleContent == Line1 \o <<"\n">> \o Line2 \o <<"\n", "\n">> \o Line4 \o <<"\n">>

MetricsInit ==
    /\ content \in Contents \cup {ExampleContent}
    /\ fileMetrics = ZeroMetrics
    /\ pc = [at |-> "getFileMetrics", ph |-> 0]
    /\ fs = <<>>
    /\ options = [root |-> FALSE, src |-> FALSE, all |-> FALSE, dir |-> NoDir]
    /\ stack = <<>>
    /\ returned = ZeroAggregate
    /\ printed = <<>>
    /\ walked = <<>>
    /\ listed = <<>>
    /\ counted = <<>>

\* Lines 22-47 on the text read.
Measure ==
    /\ pc.at = "getFileMetrics"
    /\ fileMetrics' = getFileMetrics(content)
    /\ pc' = [at |-> "measured", ph |-> 0]
    /\ UNCHANGED <<fs, options, stack, returned, printed, walked, listed, counted, content>>

MetricsNext == Measure

MetricsSpec == MetricsInit /\ [][MetricsNext]_vars

\* C8 (as amended): the example yields totalLines 5, blankLines 2 (the empty
\* third line and the empty piece after the final newline), commentLines 1,
\* codeLines 2, mixedLines 2 (lines 1 and 2 both contain a marker), and a
\* characterCount of lines 2 and 4 joined by one newline.
C8_ExampleMetrics ==
    (pc.at = "measured" /\ content = ExampleContent) =>
        fileMetrics = [totalLines |-> 5, blankLines |-> 2, commentLines |-> 1,
                       lines |-> 2, codeAndCommentLines |-> 2,
                       characters |-> Len(Line2) + 1 + Len(Line4)]

C8_Witness == pc.at = "measured" /\ content = ExampleContent

\* C8 as stated: blankLines 1 and mixedLines 1.
C8_ExampleAsStated ==
    (pc.at = "measured" /\ content = ExampleContent) =>
        fileMetrics = [totalLines |-> 5, blankLines |-> 1, commentLines |-> 1,
                       lines |-> 2, codeAndCommentLines |-> 1,
                       characters |-> Len(Line2) + 1 + Len(Line4)]

\* C10: every line is counted in exactly one of codeLines, commentLines and
\* blankLines, so the three add up to totalLines; codeLines is at most the
\* non-blank lines; every comment line is also a mixed line.
C10_CodeCommentBlankPartition ==
    pc.at = "measured" =>
        /\ fileMetrics.lines + fileMetrics.commentLines + fileMetrics.blankLines
              = fileMetrics.totalLines
        /\ fileMetrics.lines <= fileMetrics.totalLines - fileMetrics.blankLines
        /\ fileMetrics.codeAndCommentLines >= fileMetrics.commentLines
        /\ fileMetrics.totalLines = Len(split(content, "\n"))

\* A measured text with code, comment and blank lines and a code line that
\* carries a marker.
C10_Witness ==
    /\ pc.at = "measured"
    /\ fileMetrics.lines >= 1 /\ fileMetrics.commentLines >= 1 /\ fileMetrics.blankLines >= 1
    /\ fileMetrics.codeAndCommentLines > fileMetrics.commentLines

====
